---------------------------- MODULE Spec2Model ----------------------------
(***************************************************************************)
(* Command safety and execution pipeline of the IT assistant (main.py):    *)
(* command extraction, security classification, permission negotiation,    *)
(* bounded execution and the failure-to-retry loop of                      *)
(* ITAssistant.handle_command_execution.                                   *)
(*                                                                         *)
(* Texts are sequences of one-character strings, so that the regular       *)
(* expressions and substring tests of the program are computed, not        *)
(* assumed.  Fixed message fragments built by f-strings are kept as one    *)
(* multi-character element each.                                           *)
(***************************************************************************)
EXTENDS Integers, Sequences, FiniteSets, TLC

(***************************************************************************)
(* Text primitives (Python str methods used by the program)                *)
(***************************************************************************)
UpperLetters == <<"A","B","C","D","E","F","G","H","I","J","K","L","M","N","O","P","Q","R","S","T","U","V","W","X","Y","Z">>

LowerLetters == <<"a","b","c","d","e","f","g","h","i","j","k","l","m","n","o","p","q","r","s","t","u","v","w","x","y","z">>

\* the lower-case letter of every upper-case letter
LowerOf ==
    [u \in {UpperLetters[n] : n \in 1..26} |->
        LowerLetters[CHOOSE n \in 1..26 : UpperLetters[n] = u]]

\* str.lower() on one character
LowerChar(c) == IF c \in DOMAIN LowerOf THEN LowerOf[c] ELSE c

\* str.lower()
Lower(s) == [n \in 1..Len(s) |-> LowerChar(s[n])]

\* the backquote character, which a TLA+ string cannot hold
BQ == "<backquote>"

\* characters matched by \s and removed by str.strip()
Whitespace == {" ", "\n", "\t"}

RECURSIVE LStrip(_)
LStrip(s) == IF s # <<>> /\ Head(s) \in Whitespace THEN LStrip(Tail(s)) ELSE s

RECURSIVE RStrip(_)
RStrip(s) ==
    IF s # <<>> /\ s[Len(s)] \in Whitespace THEN RStrip(SubSeq(s, 1, Len(s) - 1)) ELSE s

\* str.strip()
Strip(s) == RStrip(LStrip(s))

\* s[i:] starts with t
StartsWithAt(s, i, t) ==
    /\ i + Len(t) - 1 <= Len(s)
    /\ \A n \in 1..Len(t) : s[i + n - 1] = t[n]

\* str.startswith
StartsWith(s, t) == StartsWithAt(s, 1, t)

\* the Python test  t in s
Contains(s, t) == \E i \in 1..(Len(s) + 1) : StartsWithAt(s, i, t)

Digits == <<"0", "1", "2", "3", "4", "5", "6", "7", "8", "9">>

\* the decimal text an f-string gives a non-negative int
RECURSIVE Str(_)
Str(n) == IF n < 10 THEN <<Digits[n + 1]>> ELSE Str(n \div 10) \o <<Digits[(n % 10) + 1]>>

\* truth value of an Optional[str]: None and the empty string are false
None == <<"<None>">>

Truthy(x) == x # None /\ x # <<>>

(***************************************************************************)
(* Regular expressions (module re), as far as the program's patterns use   *)
(* them.  A pattern is a sequence of items; literals are compared          *)
(* case-insensitively (re.IGNORECASE is set at every call site).           *)
(***************************************************************************)
Lit(c) == [k |-> "lit", c |-> c, cls |-> "", min |-> 0]

Lits(t) == [n \in 1..Len(t) |-> Lit(t[n])]

\* greedy repetition of a character class, at least min times
Greedy(cls, min) == [k |-> "greedy", c |-> "", cls |-> cls, min |-> min]

\* lazy repetition .*? under re.DOTALL
LazyAny == [k |-> "lazy", c |-> "", cls |-> "any", min |-> 0]

InClass(cls, c) ==
    CASE cls = "ws"   -> c \in Whitespace
      [] cls = "dot"  -> c # "\n"
      [] cls = "nobt" -> c # BQ
      [] OTHER        -> TRUE

\* length of the longest run of cls characters of s starting at i
Run(cls, s, i) ==
    LET stops == {j \in i..Len(s) : ~InClass(cls, s[j])}
    IN  IF stops = {} THEN Len(s) + 1 - i
        ELSE (CHOOSE m \in stops : \A o \in stops : m <= o) - i

NoMatch == 0

\* end (index after the last matched character) of the match the
\* backtracking matcher prefers for pat[k..] at position i of s, or NoMatch
RECURSIVE MatchEnd(_, _, _, _), TryGreedy(_, _, _, _, _), TryLazy(_, _, _, _, _)
MatchEnd(pat, k, s, i) ==
    IF k > Len(pat) THEN i
    ELSE CASE pat[k].k = "lit" ->
                IF i <= Len(s) /\ LowerChar(s[i]) = LowerChar(pat[k].c)
                THEN MatchEnd(pat, k + 1, s, i + 1)
                ELSE NoMatch
           [] pat[k].k = "greedy" -> TryGreedy(pat, k, s, i, Run(pat[k].cls, s, i))
           [] OTHER -> TryLazy(pat, k, s, i, 0)

\* the greedy repetition takes the most characters, n or fewer and at least
\* min, after which the rest of the pattern matches
TryGreedy(pat, k, s, i, n) ==
    LET fits == {m \in pat[k].min..n : MatchEnd(pat, k + 1, s, i + m) # NoMatch}
    IN  IF fits = {} THEN NoMatch
        ELSE MatchEnd(pat, k + 1, s, i + (CHOOSE m \in fits : \A o \in fits : m >= o))

\* the lazy repetition takes the fewest characters, n or more, after which
\* the rest of the pattern matches
TryLazy(pat, k, s, i, n) ==
    LET fits == {m \in n..(Len(s) + 1 - i) : MatchEnd(pat, k + 1, s, i + m) # NoMatch}
    IN  IF fits = {} THEN NoMatch
        ELSE MatchEnd(pat, k + 1, s, i + (CHOOSE m \in fits : \A o \in fits : m <= o))

\* re.search(pattern, s, re.IGNORECASE) is not None, for one alternative
SearchAlt(pat, s) == \E i \in 1..(Len(s) + 1) : MatchEnd(pat, 1, s, i) # NoMatch

\* the same for a pattern given as the list of its top-level alternatives
Search(alts, s) == \E a \in 1..Len(alts) : SearchAlt(alts[a], s)

(***************************************************************************)
(* Config                                                                  *)
(***************************************************************************)
max_retries == 3

conversation_history_limit == 50

command_timeout == 30

WsPlus == Greedy("ws", 1)

\* Config.dangerous_commands: source text and parsed form of each pattern.
\* The sixth pattern has an unescaped | and so is an alternation of
\* ":(){ :"  (an empty group between ":" and "{ :")  and  ":& };:".
dangerous_commands ==
    << [src |-> "rm\\s+-rf\\s+/",
        alts |-> << Lits(<<"r", "m">>) \o <<WsPlus>> \o Lits(<<"-", "r", "f">>) \o <<WsPlus>> \o Lits(<<"/">>) >>],
       [src |-> "format\\s+c:",
        alts |-> << Lits(<<"f", "o", "r", "m", "a", "t">>) \o <<WsPlus>> \o Lits(<<"c", ":">>) >>],
       [src |-> "del\\s+/s\\s+/q\\s+c:\\\\",
        alts |-> << Lits(<<"d", "e", "l">>) \o <<WsPlus>> \o Lits(<<"/", "s">>) \o <<WsPlus>> \o Lits(<<"/", "q">>)
                    \o <<WsPlus>> \o Lits(<<"c", ":", "\\">>) >>],
       [src |-> "shutdown\\s+-h\\s+now",
        alts |-> << Lits(<<"s", "h", "u", "t", "d", "o", "w", "n">>) \o <<WsPlus>> \o Lits(<<"-", "h">>) \o <<WsPlus>> \o Lits(<<"n", "o", "w">>) >>],
       [src |-> "init\\s+0",
        alts |-> << Lits(<<"i", "n", "i", "t">>) \o <<WsPlus>> \o Lits(<<"0">>) >>],
       [src |-> ":(){ :|:& };:",
        alts |-> << Lits(<<":", "{", " ", ":">>), Lits(<<":", "&", " ", "}", ";", ":">>) >>],
       [src |-> "dd\\s+if=/dev/zero",
        alts |-> << Lits(<<"d", "d">>) \o <<WsPlus>> \o Lits(<<"i", "f", "=", "/", "d", "e", "v", "/", "z", "e", "r", "o">>) >>],
       [src |-> "mkfs\\.",
        alts |-> << Lits(<<"m", "k", "f", "s", ".">>) >>],
       [src |-> "fdisk.*--delete",
        alts |-> << Lits(<<"f", "d", "i", "s", "k">>) \o <<Greedy("dot", 0)>> \o Lits(<<"-", "-", "d", "e", "l", "e", "t", "e">>) >>] >>

\* Config.privileged_commands
privileged_commands ==
    << <<"s", "u", "d", "o">>, <<"s", "u">>, <<"d", "o", "a", "s">>, <<"r", "u", "n", "a", "s">>,
       <<"s", "y", "s", "t", "e", "m", "c", "t", "l">>, <<"s", "e", "r", "v", "i", "c", "e">>, <<"c", "h", "k", "c", "o", "n", "f", "i", "g">>,
       <<"a", "p", "t">>, <<"y", "u", "m">>, <<"d", "n", "f">>, <<"p", "a", "c", "m", "a", "n">>, <<"z", "y", "p", "p", "e", "r">>,
       <<"m", "o", "u", "n", "t">>, <<"u", "m", "o", "u", "n", "t">>, <<"f", "s", "c", "k">>,
       <<"i", "p", "t", "a", "b", "l", "e", "s">>, <<"u", "f", "w">>, <<"f", "i", "r", "e", "w", "a", "l", "l", "-", "c", "m", "d">>,
       <<"c", "h", "o", "c", "o">>, <<"b", "r", "e", "w">> >>

(***************************************************************************)
(* SecurityValidator                                                       *)
(***************************************************************************)
\* indexes of the dangerous patterns that command matches
DangerousMatches(command) ==
    {p \in 1..Len(dangerous_commands) : Search(dangerous_commands[p].alts, command)}

Min(S) == CHOOSE x \in S : \A y \in S : x <= y

\* is_dangerous_command: <<is_dangerous, reason>>; the first matching pattern
\* of the list gives the reason
is_dangerous_command(command) ==
    IF DangerousMatches(command) # {}
    THEN <<TRUE, <<"Command matches dangerous pattern: ",
                   dangerous_commands[Min(DangerousMatches(command))].src>> >>
    ELSE <<FALSE, <<>> >>

\* the privilege test on the first word of the command only
requires_privileges_FirstWord(command) ==
    \E t \in 1..Len(privileged_commands) :
        StartsWith(Strip(Lower(command)), privileged_commands[t])

\* requires_privileges: substring test on the lower-cased, stripped command
requires_privileges(command) ==
    \E t \in 1..Len(privileged_commands) :
        Contains(Strip(Lower(command)), privileged_commands[t])

\* validate_command with the result of the danger check ignored
validate_command_Unchecked(command) == <<TRUE, <<>>, requires_privileges(command)>>

\* validate_command: <<is_safe, reason, requires_privileges>>
validate_command(command) ==
    IF is_dangerous_command(command)[1]
    THEN <<FALSE, is_dangerous_command(command)[2], FALSE>>
    ELSE <<TRUE, <<>>, requires_privileges(command)>>

\* the tiers with the privilege test ahead of the danger check
classify_PrivilegeFirst(command) ==
    IF requires_privileges(command) THEN "Privileged"
    ELSE IF ~validate_command(command)[1] THEN "Forbidden"
    ELSE "Ordinary"

\* the risk tier validate_command assigns: Forbidden when it is not safe,
\* Privileged when it is safe and requires privileges, Ordinary otherwise
classify(command) ==
    IF ~validate_command(command)[1] THEN "Forbidden"
    ELSE IF validate_command(command)[3] THEN "Privileged"
    ELSE "Ordinary"

(***************************************************************************)
(* ResponseParser                                                          *)
(***************************************************************************)
Fence == <<BQ, BQ, BQ>>

\* ResponseParser.command_patterns: each pattern is pre ( body ) post, the
\* group being the body; post is a literal
FencePattern(label) ==
    [pre  |-> Lits(Fence \o label \o <<"\n">>),
     body |-> LazyAny,
     post |-> Lits(<<"\n", BQ, BQ, BQ>>)]

MarkerPattern(marker) ==
    [pre  |-> Lits(marker) \o <<Greedy("ws", 0)>> \o Lits(<<BQ>>),
     body |-> Greedy("nobt", 1),
     post |-> Lits(<<BQ>>)]

command_patterns ==
    << FencePattern(<<"b", "a", "s", "h">>),
       FencePattern(<<"s", "h", "e", "l", "l">>),
       FencePattern(<<"s", "h">>),
       MarkerPattern(<<"C", "o", "m", "m", "a", "n", "d", ":">>),
       MarkerPattern(<<"E", "x", "e", "c", "u", "t", "e", ":">>),
       MarkerPattern(<<"R", "u", "n", ":">>),
       FencePattern(<<>>) >>

\* re.findall(pattern, s, re.DOTALL | re.IGNORECASE) from position i on: the
\* group of each successive non-overlapping match, leftmost first
RECURSIVE FindAllFrom(_, _, _)
FindAllFrom(p, s, i) ==
    LET BodyAt(j) == MatchEnd(p.pre, 1, s, j)
        EndAt(j)  == IF BodyAt(j) = NoMatch THEN NoMatch
                     ELSE MatchEnd(<<p.body>> \o p.post, 1, s, BodyAt(j))
        starts    == {j \in i..Len(s) : EndAt(j) # NoMatch}
    IN  IF starts = {} THEN <<>>
        ELSE LET j == CHOOSE m \in starts : \A o \in starts : m <= o
             IN  <<SubSeq(s, BodyAt(j), EndAt(j) - Len(p.post) - 1)>>
                 \o FindAllFrom(p, s, EndAt(j))

FindAll(p, s) == FindAllFrom(p, s, 1)

\* line 321 without the test for a comment
Kept_Comments(cmd) == cmd # <<>>

\* line 321: the trimmed match is kept when it is not empty and does not
\* start with '#'
Kept(cmd) == cmd # <<>> /\ ~StartsWith(cmd, <<"#">>)

\* the clean-up of extract_commands: strip each match, drop the empty ones
\* and those starting with '#'
RECURSIVE CleanMatches(_)
CleanMatches(ms) ==
    IF ms = <<>> THEN <<>>
    ELSE LET cmd == Strip(Head(ms))
         IN  (IF Kept(cmd) THEN <<cmd>> ELSE <<>>)
             \o CleanMatches(Tail(ms))

RECURSIVE ExtractFrom(_, _)
ExtractFrom(k, response) ==
    IF k > Len(command_patterns) THEN <<>>
    ELSE CleanMatches(FindAll(command_patterns[k], response)) \o ExtractFrom(k + 1, response)

\* extract_commands
extract_commands(response) == ExtractFrom(1, response)

(***************************************************************************)
(* ConversationManager                                                     *)
(***************************************************************************)
Message(role, content) == [role |-> role, content |-> content]

\* add_message without lines 360-361: the history grows without limit
add_message_NoLimit(h, role, content) == Append(h, Message(role, content))

\* add_message keeping the first conversation_history_limit entries
add_message_KeepOldest(h, role, content) ==
    LET h2 == Append(h, Message(role, content))
    IN  IF Len(h2) > conversation_history_limit
        THEN SubSeq(h2, 1, conversation_history_limit)
        ELSE h2

\* add_message: append, then keep the last conversation_history_limit entries
add_message(h, role, content) ==
    LET h2 == Append(h, Message(role, content))
    IN  IF Len(h2) > conversation_history_limit
        THEN SubSeq(h2, Len(h2) - conversation_history_limit + 1, Len(h2))
        ELSE h2

SystemPrompt == <<"You are an expert IT professional assistant. ...">>

\* get_chat_messages: the system message followed by role and content of
\* every history entry
get_chat_messages(h) == <<Message("system", SystemPrompt)>> \o h

(***************************************************************************)
(* Bounds and inputs                                                       *)
(***************************************************************************)
\* deepest recursion of handle_command_execution that is explored: the
\* backend answers this many failure reports of one request and then stops
MaxDepth == 4

\* invocations at a depth below this one get every fix response of
\* FixResponses from the backend, deeper ones only those of DeepResponses
WideDepth == 1

\* what the user typed as the request of this turn
UserRequest == <<"f", "i", "x", " ", "i", "t">>

RPlain == <<"o", "k">>

ROne == <<BQ, BQ, BQ, "b", "a", "s", "h", "\n", "l", "s", "\n", BQ, BQ, BQ>>

RTwo == <<BQ, BQ, BQ, "s", "h", "\n", "a", "p", "t", " ", "x", "\n", BQ, BQ, BQ, "\n", "R", "u", "n", ":", " ", BQ, "l", "s", BQ>>

RBad == <<BQ, BQ, BQ, "b", "a", "s", "h", "\n", "S", "u", "d", "o", " ", "r", "m", " ", " ", "-", "R", "F", " ", "/", "\n", BQ, BQ, BQ>>

\* response texts process_user_input may return (model backend or fallback)
Responses == {RPlain, ROne, RTwo, RBad}

\* response texts the model backend may produce on the retry path
FixResponses == {RPlain, ROne, RBad}

\* response texts the backend produces for deep invocations
DeepResponses == {RBad}

\* what OllamaClient.chat may return on the retry path to the invocation at
\* depth d when the backend still answers n failure reports: None on any
\* failure, otherwise the stripped content, which may be empty
ChatResults(d, n) ==
    {None, <<>>} \cup (IF n = 0 THEN {}
                       ELSE IF d < WideDepth THEN FixResponses ELSE DeepResponses)

\* lines the user may type at a prompt
TerminalInputs ==
    { <<"y">>, <<" ", "Y">>, <<"n">>, <<"y", "e", "s">>, <<"N", "O">>, <<"e", "x", "p", "l", "a", "i", "n">>, <<"e">>, <<"m", "a", "y", "b", "e">> }

\* what a spawned command may do: exit code and the two captured streams, or
\* run into the timeout
ProcessOutcomes ==
    { [kind |-> "exit", rc |-> 0, stdout |-> <<"o", "u", "t">>, stderr |-> <<>>],
      [kind |-> "exit", rc |-> 0, stdout |-> <<>>, stderr |-> <<"w", "a", "r", "n">>],
      [kind |-> "exit", rc |-> 1, stdout |-> <<"o", "u", "t">>, stderr |-> <<>>],
      [kind |-> "exit", rc |-> 1, stdout |-> <<>>, stderr |-> <<"e", "r", "r">>],
      [kind |-> "timeout", rc |-> 0, stdout |-> <<>>, stderr |-> <<>>] }

(***************************************************************************)
(* State                                                                   *)
(***************************************************************************)
VARIABLES
    require_confirmation,  \* Config.require_confirmation
    history,               \* ConversationManager.history
    stack,                 \* active invocations of handle_command_execution
    pc,                    \* where the single thread of control is
    arg,                   \* argument of the invocation about to start
    ret,                   \* value returned by the invocation that returned last
    perm,                  \* what request_permission returned to the current execute_command
    io,                    \* the external interaction of the last step
    lastResponse,          \* the last response text received from the model
    fixes,                 \* failure reports the backend will still answer
    procs,                 \* running processes that execute_command has started
    stdin                  \* "open", or "closed" once every input() raises EOFError

vars == <<require_confirmation, history, stack, pc, arg, ret, perm, io, lastResponse,
          fixes, procs, stdin>>

\* the locals of one invocation of handle_command_execution
NoResult == [success |-> TRUE, stdout |-> <<>>, stderr |-> <<>>]

NewFrame(response, commands) ==
    [response |-> response, commands |-> commands, i |-> 1,
     result |-> NoResult, nofix |-> FALSE, recursed |-> FALSE]

Top == stack[Len(stack)]

\* recursion depth of the top invocation; the outermost one has depth 0
Depth == Len(stack) - 1

\* the candidate the loop of the top invocation is at
Command == Top.commands[Top.i]

SetTop(f) == [stack EXCEPT ![Len(stack)] = f]

IO(op, a) == [op |-> op, arg |-> a]

\* process_user_input: the user message and the response are appended
process_user_input(h, user_input, response) ==
    add_message(add_message(h, "user", user_input), "assistant", response)

\* line 689: the session loop calls handle_command_execution(response) on the
\* response process_user_input returned
Init ==
    /\ require_confirmation \in BOOLEAN
    /\ \E response \in Responses :
          /\ history = process_user_input(<<>>, UserRequest, response)
          /\ arg = response
          /\ lastResponse = response
    /\ stack = <<>>
    /\ pc = "call"
    /\ ret = None
    /\ perm = "none"
    /\ io = IO("none", <<>>)
    /\ fixes = MaxDepth
    /\ procs = {}
    /\ stdin = "open"

(***************************************************************************)
(* ITAssistant.handle_command_execution                                    *)
(***************************************************************************)
\* the entry with the response recorded in the conversation once more when
\* it holds no command
HandleCall_Recorded ==
    /\ pc = "call"
    /\ io' = IO("none", <<>>)
    /\ IF extract_commands(arg) = <<>>
       THEN /\ ret' = arg
            /\ pc' = "return"
            /\ history' = add_message(history, "assistant", arg)
            /\ UNCHANGED stack
       ELSE /\ stack' = Append(stack, NewFrame(arg, extract_commands(arg)))
            /\ pc' = "ask"
            /\ UNCHANGED <<ret, history>>
    /\ UNCHANGED <<require_confirmation, stdin, procs, fixes, arg, perm, lastResponse>>

\* entry: extract the commands; without any, return the response
HandleCall ==
    /\ pc = "call"
    /\ io' = IO("none", <<>>)
    /\ IF extract_commands(arg) = <<>>
       THEN /\ ret' = arg
            /\ pc' = "return"
            /\ UNCHANGED stack
       ELSE /\ stack' = Append(stack, NewFrame(arg, extract_commands(arg)))
            /\ pc' = "ask"
            /\ UNCHANGED ret
    /\ UNCHANGED <<require_confirmation, stdin, procs, fixes, history, arg, perm, lastResponse>>

\* the stack without its top invocation
Pop == SubSeq(stack, 1, Len(stack) - 1)

\* the for loop of the top invocation, whose locals are f, moves to the next
\* command, or ends and the invocation returns its response (line 654)
AdvanceLoop(f) ==
    IF f.i < Len(f.commands)
    THEN /\ stack' = SetTop([f EXCEPT !.i = f.i + 1])
         /\ pc' = "ask"
         /\ UNCHANGED ret
    ELSE /\ stack' = Pop
         /\ pc' = "return"
         /\ ret' = f.response

\* line 618 with yes taken for y
Accepted_Yes(answer) == Strip(Lower(answer)) \in {<<"y">>, <<"y", "e", "s">>}

\* line 618: the answer, lower-cased and stripped, is 'y'
Accepted(answer) == Strip(Lower(answer)) = <<"y">>

\* "Execute this command? (y/n)"
AskExecute ==
    /\ pc = "ask"
    /\ stdin = "open"
    /\ \E answer \in TerminalInputs :
          /\ IF Accepted(answer)
             THEN /\ pc' = "exec"
                  /\ UNCHANGED <<stack, ret>>
             ELSE AdvanceLoop(Top)
          /\ io' = [op |-> "input", arg |-> "Execute this command? (y/n): ", line |-> answer]
    /\ UNCHANGED <<require_confirmation, stdin, procs, fixes, history, arg, perm, lastResponse>>

(***************************************************************************)
(* CommandExecutor.execute_command and PermissionManager                   *)
(***************************************************************************)
\* execute_command returns <<success, stdout, stderr>> to line 619
Returned(success, stdout, stderr) ==
    /\ stack' = SetTop([Top EXCEPT !.result =
                          [success |-> success, stdout |-> stdout, stderr |-> stderr]])
    /\ pc' = "result"

\* lines 257-258 without the return: execute_command goes on to the spawn
\* whatever request_permission returned
AfterPermission_FallThrough(decision) ==
    /\ pc' = "popen"
    /\ UNCHANGED stack

\* lines 257-258: execute_command goes on to the spawn when
\* request_permission returned True and returns otherwise
AfterPermission(decision) ==
    IF decision = "Approved"
    THEN /\ pc' = "popen"
         /\ UNCHANGED stack
    ELSE Returned(FALSE, <<>>, <<"Permission denied by user">>)

\* line 186 ignored: the user is asked whatever the flag says
AsksUser_Always(flag) == TRUE

\* line 186: request_permission asks the user only when the flag is set
AsksUser(flag) == flag

\* validation and the decision whether permission has to be asked for
ExecuteCommand ==
    /\ pc = "exec"
    /\ LET v == validate_command(Command)
       IN  IF ~v[1]
           THEN /\ Returned(FALSE, <<>>, <<"Command blocked for security: ">> \o v[2])
                /\ perm' = "none"
                /\ io' = IO("log", "Command blocked for security")
           ELSE IF v[3]
                THEN IF ~AsksUser(require_confirmation)
                     THEN /\ perm' = "Approved"
                          /\ AfterPermission("Approved")
                          /\ io' = IO("none", <<>>)
                     ELSE /\ perm' = "none"
                          /\ pc' = "permission"
                          /\ io' = IO("print", "PRIVILEGE ESCALATION REQUIRED")
                          /\ UNCHANGED stack
                ELSE /\ perm' = "none"
                     /\ pc' = "popen"
                     /\ io' = IO("none", <<>>)
                     /\ UNCHANGED stack
    /\ UNCHANGED <<require_confirmation, stdin, procs, fixes, history, arg, ret, lastResponse>>

\* str.split()[0]: the first whitespace-delimited word
RECURSIVE FirstWordOf(_)
FirstWordOf(s) ==
    IF s = <<>> \/ Head(s) \in Whitespace THEN <<>> ELSE <<Head(s)>> \o FirstWordOf(Tail(s))

FirstWord(s) == FirstWordOf(LStrip(s))

\* _explain_command: the static explanation keyed by the first word
explanations ==
    << <<<<"s", "u", "d", "o">>, "Executes command with administrator privileges">>,
       <<<<"s", "y", "s", "t", "e", "m", "c", "t", "l">>, "Controls system services (start, stop, restart, enable, disable)">>,
       <<<<"a", "p", "t">>, "Package manager for Debian/Ubuntu systems">>,
       <<<<"y", "u", "m">>, "Package manager for Red Hat based systems">>,
       <<<<"d", "n", "f">>, "Package manager for newer Red Hat based systems">>,
       <<<<"p", "a", "c", "m", "a", "n">>, "Package manager for Arch Linux">>,
       <<<<"z", "y", "p", "p", "e", "r">>, "Package manager for openSUSE">>,
       <<<<"m", "o", "u", "n", "t">>, "Attaches filesystem to directory tree">>,
       <<<<"i", "p", "t", "a", "b", "l", "e", "s">>, "Configures firewall rules">>,
       <<<<"c", "h", "o", "c", "o">>, "Package manager for Windows">>,
       <<<<"b", "r", "e", "w">>, "Package manager for macOS">> >>

explain_command(command) ==
    IF \E n \in 1..Len(explanations) : explanations[n][1] = FirstWord(command)
    THEN explanations[CHOOSE n \in 1..Len(explanations) :
                         explanations[n][1] = FirstWord(command)][2]
    ELSE "No detailed explanation available"

\* the answers that end the prompt loop
Yes == {<<"y", "e", "s">>, <<"y">>}
No == {<<"n", "o">>, <<"n">>}

\* what one round of the prompt loop reads and prints
Round(line, out) ==
    [op |-> "input", arg |-> "Proceed? (yes/no/explain): ", line |-> line, out |-> out]

\* lines 200-207 with an unrecognised answer taken as a refusal
Decision_Lenient(response) ==
    CASE response \in Yes -> "Approved"
      [] response \in No -> "Denied"
      [] response \in {<<"e", "x", "p", "l", "a", "i", "n">>, <<"e">>} -> "Explain"
      [] OTHER -> "Denied"

\* lines 200-207: what the loop does with the normalised answer
Decision(response) ==
    CASE response \in Yes -> "Approved"
      [] response \in No -> "Denied"
      [] response \in {<<"e", "x", "p", "l", "a", "i", "n">>, <<"e">>} -> "Explain"
      [] OTHER -> "Reask"

\* one round of the "Proceed? (yes/no/explain)" loop of request_permission
RequestPermission ==
    /\ pc = "permission"
    /\ stdin = "open"
    /\ \E answer \in TerminalInputs :
          LET response == Strip(Lower(answer))
          IN  CASE Decision(response) = "Approved" ->
                      /\ perm' = "Approved"
                      /\ AfterPermission("Approved")
                      /\ io' = Round(answer, "")
                [] Decision(response) = "Denied" ->
                      /\ perm' = "Denied"
                      /\ AfterPermission("Denied")
                      /\ io' = Round(answer, "")
                [] Decision(response) = "Explain" ->
                      /\ io' = Round(answer, explain_command(Command))
                      /\ UNCHANGED <<perm, pc, stack>>
                [] OTHER ->
                      /\ io' = Round(answer, "Please respond with 'yes', 'no', or 'explain'")
                      /\ UNCHANGED <<perm, pc, stack>>
    /\ UNCHANGED <<require_confirmation, stdin, procs, fixes, history, arg, ret, lastResponse>>

\* the shell that Popen starts for the command, and a process which that
\* shell has started to run it
Child(command) == [command |-> command, kind |-> "shell"]
Descendant(command) == [command |-> command, kind |-> "descendant"]

\* line 285, process.kill(): the shell of the command is killed; what it
\* started is not signalled, and goes on running when survives is true (the
\* shell had forked to run the command) or is gone with the shell otherwise
\* (the shell had replaced itself by the command)
Kill(running, command, survives) ==
    (running \ {Child(command)}) \cup (IF survives THEN {Descendant(command)} ELSE {})

\* subprocess.Popen(command, shell=True): the child starts, or Popen raises
Spawn ==
    /\ pc = "popen"
    /\ \/ /\ pc' = "communicate"
          /\ io' = IO("spawn", Command)
          /\ procs' = procs \cup {Child(Command)}
          /\ UNCHANGED stack
       \/ /\ Returned(FALSE, <<>>, <<"Execution error: ", "OSError">>)
          /\ io' = IO("log", "Execution error")
          /\ UNCHANGED procs
    /\ UNCHANGED <<require_confirmation, stdin, fixes, history, arg, ret, perm, lastResponse>>

\* the child's error stream sent into the pipe of its output stream
CompletedResult_Merged(o) == <<o.rc = 0, o.stdout \o o.stderr, <<>> >>

\* lines 274-282: what execute_command returns for a child that ended with
\* exit code rc and wrote stdout and stderr to its two pipes
CompletedResult(o) == <<o.rc = 0, o.stdout, o.stderr>>

\* process.communicate(timeout): the child ends, or the timeout expires
Communicate ==
    /\ pc = "communicate"
    /\ \E o \in ProcessOutcomes :
          IF o.kind = "exit"
          THEN /\ Returned(CompletedResult(o)[1], CompletedResult(o)[2], CompletedResult(o)[3])
               /\ io' = [op |-> "wait", arg |-> Command, outcome |-> o]
               /\ procs' = procs \ {Child(Command)}
          ELSE /\ Returned(FALSE, <<>>, <<"Command timed out after ">> \o Str(command_timeout) \o <<" seconds">>)
               /\ io' = IO("kill", Command)
               /\ \E survives \in BOOLEAN : procs' = Kill(procs, Command, survives)
    /\ UNCHANGED <<require_confirmation, stdin, fixes, history, arg, ret, perm, lastResponse>>

(***************************************************************************)
(* handle_command_execution after execute_command has returned             *)
(***************************************************************************)
\* the failure report without the error text
FailureMessage_NoStderr(command, stderr) ==
    <<"The command '">> \o command \o <<"' failed.">>
    \o <<"\nPlease analyze this error and provide a solution or alternative approach.">>

\* the failure report sent to the model
FailureMessage(command, stderr) ==
    <<"The command '">> \o command \o <<"' failed with this error:\n">> \o stderr
    \o <<"\nPlease analyze this error and provide a solution or alternative approach.">>

\* line 637 without the test of stderr
NeedsFix_AnyFailure(result) == ~result.success

\* the condition of line 637
NeedsFix(result) == ~result.success /\ result.stderr # <<>>

\* lines 621-643: show the output; on failure with stderr append the report
AfterExecute ==
    /\ pc = "result"
    /\ io' = IO("print", Top.result)
    /\ IF NeedsFix(Top.result)
       THEN /\ history' = add_message(history, "user", FailureMessage(Command, Top.result.stderr))
            /\ pc' = "chat"
            /\ UNCHANGED <<stack, ret>>
       ELSE /\ AdvanceLoop(Top)
            /\ UNCHANGED history
    /\ UNCHANGED <<require_confirmation, stdin, procs, fixes, arg, perm, lastResponse>>

\* line 652 without the return of the recursive result: the invocation
\* returns its own response
ReturnValue_Own(f, value) == f.response

\* the value the invocation with locals f returns once the invocation it
\* called has returned value
ReturnValue(f, value) == value

\* the backend is asked again when it gave no response
OnNoFix_Retry(f) ==
    /\ stack' = SetTop(f)
    /\ pc' = "chat"
    /\ UNCHANGED ret

\* lines 647-654 when fix_response is false: the loop goes on
OnNoFix(f) == AdvanceLoop(f)

\* lines 645-652: ask the model; with a response, recurse on it
ChatFix ==
    /\ pc = "chat"
    /\ \E fix_response \in ChatResults(Depth, fixes) :
          /\ io' = [op |-> "chat", arg |-> get_chat_messages(history), res |-> fix_response]
          /\ IF Truthy(fix_response)
             THEN /\ history' = add_message(history, "assistant", fix_response)
                  /\ stack' = SetTop([Top EXCEPT !.recursed = TRUE])
                  /\ arg' = fix_response
                  /\ lastResponse' = fix_response
                  /\ fixes' = fixes - 1
                  /\ pc' = "call"
                  /\ UNCHANGED ret
             ELSE /\ OnNoFix([Top EXCEPT !.nofix = TRUE])
                  /\ UNCHANGED <<history, arg, lastResponse, fixes>>
    /\ UNCHANGED <<require_confirmation, stdin, procs, perm>>

\* line 652 without the return: once the recursive invocation has returned,
\* the for loop of the caller goes on with its next candidate
Return_GoesOn ==
    /\ pc = "return"
    /\ stack # <<>>
    /\ AdvanceLoop(Top)
    /\ io' = IO("none", <<>>)
    /\ UNCHANGED <<require_confirmation, stdin, procs, fixes, history, arg, perm, lastResponse>>

\* line 652: the invocation that recursed returns what the recursive
\* invocation returned
Return ==
    /\ pc = "return"
    /\ stack # <<>>
    /\ stack' = Pop
    /\ ret' = ReturnValue(Top, ret)
    /\ io' = IO("none", <<>>)
    /\ UNCHANGED <<require_confirmation, stdin, procs, fixes, history, pc, arg, perm, lastResponse>>

\* the outermost invocation has returned to the session loop (line 689)
Done ==
    /\ pc = "return"
    /\ stack = <<>>
    /\ pc' = "done"
    /\ io' = IO("none", <<>>)
    /\ UNCHANGED <<require_confirmation, stdin, procs, fixes, history, stack, arg, ret, perm, lastResponse>>

Next ==
    \/ HandleCall
    \/ AskExecute
    \/ ExecuteCommand
    \/ RequestPermission
    \/ Spawn
    \/ Communicate
    \/ AfterExecute
    \/ ChatFix
    \/ Return
    \/ Done

Spec == Init /\ [][Next]_vars

(***************************************************************************)
(* handle_command_execution late in a session                              *)
(***************************************************************************)
\* requests of the session that were answered before the one at hand
PriorTurns == 24

\* failure reports the backend still answers late in the session
LongFixes == 2

\* the n-th request of the session
PriorRequest(n) == <<"f", "i", "x", " ">> \o Str(n)

\* the history after n requests that were each answered without any
\* command: process_user_input has added the request and the answer n
\* times, and add_message has kept the last conversation_history_limit
PriorHistory(n) ==
    LET all == [k \in 1..(2 * n) |->
                   IF k % 2 = 1 THEN Message("user", PriorRequest((k + 1) \div 2))
                   ELSE Message("assistant", RPlain)]
    IN  IF 2 * n > conversation_history_limit
        THEN SubSeq(all, 2 * n - conversation_history_limit + 1, 2 * n)
        ELSE SubSeq(all, 1, 2 * n)

\* line 689 of a later turn: process_user_input has returned the response
LongInit ==
    /\ require_confirmation \in BOOLEAN
    /\ \E response \in Responses :
          /\ history = process_user_input(PriorHistory(PriorTurns), UserRequest, response)
          /\ arg = response
          /\ lastResponse = response
    /\ stack = <<>>
    /\ pc = "call"
    /\ ret = None
    /\ perm = "none"
    /\ io = IO("none", <<>>)
    /\ fixes = LongFixes
    /\ procs = {}
    /\ stdin = "open"

SpecLong == LongInit /\ [][Next]_vars

(***************************************************************************)
(* ITAssistant.process_user_input and run_interactive_session              *)
(***************************************************************************)
\* a request is read only while the history holds fewer messages than
\* this: with 2, the first request of a session
MaxHistory == 2

\* failure reports the backend answers in one session
SessionFixes == 1

\* characters matched by \w, and by [a-zA-Z0-9\-_], in a lower-cased text
WordChars ==
    {LowerLetters[n] : n \in 1..26} \cup {Digits[n] : n \in 1..10} \cup {"_"}

PackageChars == WordChars \cup {"-"}

\* how many characters of s, from position i on, are in the set S
RECURSIVE CountWhile(_, _, _)
CountWhile(s, i, S) ==
    IF i <= Len(s) /\ s[i] \in S THEN 1 + CountWhile(s, i + 1, S) ELSE 0

\* re.match(r'\b(?:install|setup)\s+([a-zA-Z0-9\-_]+)\b', user_lower): group
\* 1, or None without a match.  The group is the longest run of package
\* characters after the keyword and its whitespace that ends at a word
\* boundary.
install_match(user_lower) ==
    LET kw    == IF StartsWith(user_lower, <<"i", "n", "s", "t", "a", "l", "l">>) THEN 7
                 ELSE IF StartsWith(user_lower, <<"s", "e", "t", "u", "p">>) THEN 5
                 ELSE 0
        ws    == CountWhile(user_lower, kw + 1, Whitespace)
        start == kw + ws + 1
        run   == CountWhile(user_lower, start, PackageChars)
        IsWordAt(i) == i <= Len(user_lower) /\ user_lower[i] \in WordChars
        ends  == {n \in 1..run : IsWordAt(start + n - 1) # IsWordAt(start + n)}
    IN  IF kw = 0 \/ ws = 0 \/ ends = {} THEN None
        ELSE SubSeq(user_lower, start, start + (CHOOSE n \in ends : \A m \in ends : m <= n) - 1)

\* _generate_install_commands: the platform is what os_type and the content
\* of /etc/os-release select
generate_install_commands(platform, package) ==
      CASE platform = "debian" ->
           <<"To install ">> \o package \o <<" on Debian/Ubuntu-based systems:">> \o <<"\n", "\n", BQ, BQ, BQ, "b", "a", "s", "h", "\n", "s", "u", "d", "o", " ", "a", "p", "t", " ", "u", "p", "d", "a", "t", "e", "\n", "s", "u", "d", "o", " ", "a", "p", "t", " ", "i", "n", "s", "t", "a", "l", "l", " ">> \o package \o <<"\n", BQ, BQ, BQ, "\n">> \o <<"These commands update the package lists and install ">> \o package \o <<".">>
        [] platform = "redhat" ->
           <<"To install ">> \o package \o <<" on Red Hat-based systems:">> \o <<"\n", "\n", BQ, BQ, BQ, "b", "a", "s", "h", "\n", "s", "u", "d", "o", " ", "d", "n", "f", " ", "i", "n", "s", "t", "a", "l", "l", " ">> \o package \o <<"\n", BQ, BQ, BQ, "\n">> \o <<"This command installs ">> \o package \o <<" using the DNF package manager.">>
        [] platform = "arch" ->
           <<"To install ">> \o package \o <<" on Arch Linux:">> \o <<"\n", "\n", BQ, BQ, BQ, "b", "a", "s", "h", "\n", "s", "u", "d", "o", " ", "p", "a", "c", "m", "a", "n", " ", "-", "S", " ">> \o package \o <<"\n", BQ, BQ, BQ, "\n">> \o <<"This command installs ">> \o package \o <<" using the pacman package manager.">>
        [] platform = "linux" ->
           <<"To install ">> \o package \o <<" on other Linux distributions:">> \o <<"\n", "\n", BQ, BQ, BQ, "b", "a", "s", "h", "\n", "s", "u", "d", "o", " ", "y", "u", "m", " ", "i", "n", "s", "t", "a", "l", "l", " ">> \o package \o <<"\n", BQ, BQ, BQ, "\n">> \o <<"This command attempts to install ">> \o package \o <<" using the YUM package manager. If this fails, check your distribution's package manager.">>
        [] platform = "generic" ->
           <<"To install ">> \o package \o <<" on Linux (generic):">> \o <<"\n", "\n", BQ, BQ, BQ, "b", "a", "s", "h", "\n", "s", "u", "d", "o", " ", "y", "u", "m", " ", "i", "n", "s", "t", "a", "l", "l", " ">> \o package \o <<"\n", BQ, BQ, BQ, "\n">> \o <<"This command attempts to install ">> \o package \o <<" using the YUM package manager. If this fails, check your distribution's package manager.">>
        [] platform = "darwin" ->
           <<"To install ">> \o package \o <<" on macOS, you need Homebrew installed. If you don't have Homebrew, install it first:">> \o <<"\n", "\n", BQ, BQ, BQ, "b", "a", "s", "h", "\n", "/", "b", "i", "n", "/", "b", "a", "s", "h", " ", "-", "c", " ", "\"", "$", "(", "c", "u", "r", "l", " ", "-", "f", "s", "S", "L", " ", "h", "t", "t", "p", "s", ":", "/", "/", "r", "a", "w", ".", "g", "i", "t", "h", "u", "b", "u", "s", "e", "r", "c", "o", "n", "t", "e", "n", "t", ".", "c", "o", "m", "/", "H", "o", "m", "e", "b", "r", "e", "w", "/", "i", "n", "s", "t", "a", "l", "l", "/", "H", "E", "A", "D", "/", "i", "n", "s", "t", "a", "l", "l", ".", "s", "h", ")", "\"", "\n", BQ, BQ, BQ, "\n", "T", "h", "e", "n", " ", "i", "n", "s", "t", "a", "l", "l", " ">> \o package \o <<":", "\n", "\n", BQ, BQ, BQ, "b", "a", "s", "h", "\n", "b", "r", "e", "w", " ", "i", "n", "s", "t", "a", "l", "l", " ">> \o package \o <<"\n", BQ, BQ, BQ, "\n">> \o <<"These commands install Homebrew (if needed) and then ">> \o package \o <<".">>
        [] platform = "windows" ->
           <<"To install ">> \o package \o <<" on Windows, you need Chocolatey installed. If you don't have Chocolatey, install it first (requires PowerShell as Administrator):">> \o <<"\n", "\n", BQ, BQ, BQ, "p", "o", "w", "e", "r", "s", "h", "e", "l", "l", "\n", "S", "e", "t", "-", "E", "x", "e", "c", "u", "t", "i", "o", "n", "P", "o", "l", "i", "c", "y", " ", "B", "y", "p", "a", "s", "s", " ", "-", "S", "c", "o", "p", "e", " ", "P", "r", "o", "c", "e", "s", "s", " ", "-", "F", "o", "r", "c", "e", ";", " ", "[", "S", "y", "s", "t", "e", "m", ".", "N", "e", "t", ".", "S", "e", "r", "v", "i", "c", "e", "P", "o", "i", "n", "t", "M", "a", "n", "a", "g", "e", "r", "]", ":", ":", "S", "e", "c", "u", "r", "i", "t", "y", "P", "r", "o", "t", "o", "c", "o", "l", " ", "=", " ", "[", "S", "y", "s", "t", "e", "m", ".", "N", "e", "t", ".", "S", "e", "r", "v", "i", "c", "e", "P", "o", "i", "n", "t", "M", "a", "n", "a", "g", "e", "r", "]", ":", ":", "S", "e", "c", "u", "r", "i", "t", "y", "P", "r", "o", "t", "o", "c", "o", "l", " ", "-", "b", "o", "r", " ", "3", "0", "7", "2", ";", " ", "i", "e", "x", " ", "(", "(", "N", "e", "w", "-", "O", "b", "j", "e", "c", "t", " ", "S", "y", "s", "t", "e", "m", ".", "N", "e", "t", ".", "W", "e", "b", "C", "l", "i", "e", "n", "t", ")", ".", "D", "o", "w", "n", "l", "o", "a", "d", "S", "t", "r", "i", "n", "g", "(", "'", "h", "t", "t", "p", "s", ":", "/", "/", "c", "o", "m", "m", "u", "n", "i", "t", "y", ".", "c", "h", "o", "c", "o", "l", "a", "t", "e", "y", ".", "o", "r", "g", "/", "i", "n", "s", "t", "a", "l", "l", ".", "p", "s", "1", "'", ")", ")", "\n", BQ, BQ, BQ, "\n", "T", "h", "e", "n", " ", "i", "n", "s", "t", "a", "l", "l", " ">> \o package \o <<":", "\n", "\n", BQ, BQ, BQ, "p", "o", "w", "e", "r", "s", "h", "e", "l", "l", "\n", "c", "h", "o", "c", "o", " ", "i", "n", "s", "t", "a", "l", "l", " ">> \o package \o <<"\n", BQ, BQ, BQ, "\n">> \o <<"These commands install Chocolatey (if needed) and then ">> \o package \o <<".">>
        [] OTHER ->
           <<"Unsupported operating system for installing ">> \o package \o <<". Please specify the installation method for your system or consult the package documentation.">>

\* the keyword tests of _generate_fallback_response
AnyWordIn(words, text) == \E n \in 1..Len(words) : Contains(text, words[n])

\* _generate_fallback_response
generate_fallback_response(platform, user_input) ==
    IF install_match(Lower(user_input)) # None
    THEN generate_install_commands(platform, install_match(Lower(user_input)))
    ELSE IF AnyWordIn(<<<<"d", "i", "s", "k">>, <<"s", "p", "a", "c", "e">>, <<"s", "t", "o", "r", "a", "g", "e">>>>, Lower(user_input))
    THEN <<"AI unavailable. Here are basic disk space commands:">> \o <<"\n", "\n", BQ, BQ, BQ, "b", "a", "s", "h", "\n", "d", "f", " ", "-", "h", "\n", BQ, BQ, BQ, "\n", "S", "h", "o", "w", "s", " ", "d", "i", "s", "k", " ", "u", "s", "a", "g", "e", " ", "i", "n", " ", "h", "u", "m", "a", "n", "-", "r", "e", "a", "d", "a", "b", "l", "e", " ", "f", "o", "r", "m", "a", "t", ".", "\n", "\n", BQ, BQ, BQ, "b", "a", "s", "h", "\n", "d", "u", " ", "-", "s", "h", " ", "/", "*", "\n", BQ, BQ, BQ, "\n">> \o <<"Shows directory sizes in root.">>
    ELSE IF AnyWordIn(<<<<"p", "r", "o", "c", "e", "s", "s">>, <<"c", "p", "u">>, <<"m", "e", "m", "o", "r", "y">>>>, Lower(user_input))
    THEN <<"AI unavailable. Here are process monitoring commands:">> \o <<"\n", "\n", BQ, BQ, BQ, "b", "a", "s", "h", "\n", "t", "o", "p", "\n", BQ, BQ, BQ, "\n", "S", "h", "o", "w", "s", " ", "r", "u", "n", "n", "i", "n", "g", " ", "p", "r", "o", "c", "e", "s", "s", "e", "s", " ", "a", "n", "d", " ", "r", "e", "s", "o", "u", "r", "c", "e", " ", "u", "s", "a", "g", "e", ".", "\n", "\n", BQ, BQ, BQ, "b", "a", "s", "h", "\n", "p", "s", " ", "a", "u", "x", " ", "|", " ", "h", "e", "a", "d", " ", "-", "2", "0", "\n", BQ, BQ, BQ, "\n">> \o <<"Lists running processes.">>
    ELSE IF AnyWordIn(<<<<"n", "e", "t", "w", "o", "r", "k">>, <<"c", "o", "n", "n", "e", "c", "t", "i", "o", "n">>, <<"p", "o", "r", "t">>>>, Lower(user_input))
    THEN <<"AI unavailable. Here are network diagnostic commands:">> \o <<"\n", "\n", BQ, BQ, BQ, "b", "a", "s", "h", "\n", "n", "e", "t", "s", "t", "a", "t", " ", "-", "t", "u", "l", "p", "n", "\n", BQ, BQ, BQ, "\n", "S", "h", "o", "w", "s", " ", "l", "i", "s", "t", "e", "n", "i", "n", "g", " ", "p", "o", "r", "t", "s", ".", "\n", "\n", BQ, BQ, BQ, "b", "a", "s", "h", "\n", "p", "i", "n", "g", " ", "-", "c", " ", "4", " ", "8", ".", "8", ".", "8", ".", "8", "\n", BQ, BQ, BQ, "\n">> \o <<"Tests internet connectivity.">>
    ELSE <<"AI model is currently unavailable (timeout). \n\nYou asked: \"">> \o user_input \o <<"\"\n\nPlease try:\n1. Using a smaller/faster model (llama2 7B instead of 13B/70B)\n2. Restarting Ollama: 'ollama serve'\n3. Checking system resources with 'htop'\n4. Reducing prompt complexity\n\nType your request again when ready.">>

\* the response of process_user_input when chat returns chat_result (the
\* chat is not called for an installation request)
ResponseTo(platform, user_input, chat_result) ==
    IF install_match(Lower(user_input)) # None
    THEN generate_install_commands(platform, install_match(Lower(user_input)))
    ELSE IF ~Truthy(chat_result)
    THEN generate_fallback_response(platform, user_input)
    ELSE chat_result

\* platforms the session is run on
Platforms == {"debian"}

\* lines typed at the "You:" prompt: two requests, an empty line and special
\* commands
SessionInputs ==
    { <<"f", "i", "x", " ", "i", "t">>,
      <<"I", "n", "s", "t", "a", "l", "l", " ", "x">>,
      <<>>, <<" ", "Q", " ">>, <<"e", "x", "i", "t">>, <<"h", "e", "l", "p">>, <<"C", "L", "E", "A", "R">> }

\* what chat returns to process_user_input
FirstResults == {None, <<>>} \cup Responses

\* the special commands of lines 670-680
QuitWords == {<<"q", "u", "i", "t">>, <<"e", "x", "i", "t">>, <<"q">>}
LocalWords == {<<"h", "e", "l", "p">>, <<"s", "a", "v", "e">>, <<"c", "l", "e", "a", "r">>}

\* the prompt of the input() call control is at
PromptAt(where) ==
    CASE where = "read" -> "You: "
      [] where = "ask" -> "Execute this command? (y/n): "
      [] where = "permission" -> "Proceed? (yes/no/explain): "
      [] OTHER -> "Save conversation history? (y/n): "

\* input() has raised exception at the prompt of where
Raised(where, exception) == [op |-> "input", arg |-> PromptAt(where), raised |-> exception]

\* the exceptions input() can raise: EOFError only once stdin is closed
InputErrors == IF stdin = "closed" THEN {"EOFError"} ELSE {"EOFError", "KeyboardInterrupt"}

\* stdin after input() has raised: an end-of-file may be the end of the
\* terminal input for good
AfterError(exception) ==
    IF exception = "EOFError" THEN {stdin, "closed"} ELSE {stdin}

\* run_interactive_session up to the loop: initialize() tests the connection
Initialize ==
    /\ pc = "initialize"
    /\ \E connected \in BOOLEAN :
          /\ pc' = IF connected THEN "read" ELSE "exited"
          /\ io' = IO("print", IF connected THEN "Connected" ELSE "Failed")
    /\ UNCHANGED <<require_confirmation, stdin, procs, fixes, history, stack, arg, ret,
                   perm, lastResponse>>

\* lines 691-696 with the handler of Exception leaving the loop
Caught_Leaves(exception) == IF exception = "KeyboardInterrupt" THEN "read" ELSE "finally"

\* lines 691-696: where control goes when the body of the loop has raised
\* exception; both handlers go on with the loop
Caught(exception) == "read"

\* lines 664-689: one line is read at the "You:" prompt and handled up to
\* the call of handle_command_execution
ReadInput ==
    /\ pc = "read"
    /\ stdin = "open"
    /\ \E line \in SessionInputs :
          LET user_input == Strip(line)
          IN  /\ io' = [op |-> "input", arg |-> PromptAt("read"), line |-> line]
              /\ CASE user_input = <<>> ->
                        /\ pc' = "read"
                        /\ UNCHANGED <<history, arg, lastResponse>>
                   [] Lower(user_input) \in QuitWords ->
                        /\ pc' = "finally"
                        /\ UNCHANGED <<history, arg, lastResponse>>
                   [] Lower(user_input) \in LocalWords ->
                        /\ pc' = "read"
                        /\ UNCHANGED <<history, arg, lastResponse>>
                   [] OTHER ->
                        /\ Len(history) < MaxHistory
                        /\ \E platform \in Platforms, chat_result \in FirstResults :
                              LET response == ResponseTo(platform, user_input, chat_result)
                              IN  /\ history' = process_user_input(history, user_input, response)
                                  /\ arg' = response
                                  /\ lastResponse' = response
                        /\ pc' = "call"
    /\ UNCHANGED <<require_confirmation, stdin, procs, fixes, stack, ret, perm>>

\* input() raises at one of the three prompts inside the loop: the
\* exception leaves every invocation and is caught at lines 691-696
InputRaises ==
    /\ pc \in {"read", "ask", "permission"}
    /\ \E exception \in InputErrors :
          /\ io' = Raised(pc, exception)
          /\ pc' = Caught(exception)
          /\ stdin' \in AfterError(exception)
    /\ stack' = <<>>
    /\ UNCHANGED <<require_confirmation, procs, fixes, history, arg, ret, perm,
                   lastResponse>>

\* line 689: handle_command_execution has returned, its value is dropped
\* and the loop goes on
TurnDone ==
    /\ pc = "return"
    /\ stack = <<>>
    /\ pc' = "read"
    /\ ret' = None
    /\ perm' = "none"
    /\ io' = IO("none", <<>>)
    /\ UNCHANGED <<require_confirmation, stdin, procs, fixes, history, stack, arg,
                   lastResponse>>

\* lines 698-703: the loop was left; the offer to save is read, or raises
Finally ==
    /\ pc = "finally"
    /\ pc' = "exited"
    /\ \/ /\ stdin = "open"
          /\ \E answer \in TerminalInputs :
                io' = [op |-> "input", arg |-> PromptAt("finally"),
                       saved |-> (Strip(Lower(answer)) = <<"y">>)]
          /\ UNCHANGED stdin
       \/ \E exception \in InputErrors :
             /\ io' = Raised("finally", exception)
             /\ stdin' \in AfterError(exception)
    /\ UNCHANGED <<require_confirmation, procs, fixes, history, stack, arg, ret, perm,
                   lastResponse>>

\* main has built the configuration and the assistant
SessionInit ==
    /\ require_confirmation \in BOOLEAN
    /\ history = <<>>
    /\ stack = <<>>
    /\ pc = "initialize"
    /\ arg = None
    /\ ret = None
    /\ perm = "none"
    /\ io = IO("none", <<>>)
    /\ lastResponse = None
    /\ fixes = SessionFixes
    /\ procs = {}
    /\ stdin = "open"

SessionNext ==
    \/ Initialize
    \/ ReadInput
    \/ InputRaises
    \/ HandleCall
    \/ AskExecute
    \/ ExecuteCommand
    \/ RequestPermission
    \/ Spawn
    \/ Communicate
    \/ AfterExecute
    \/ ChatFix
    \/ Return
    \/ TurnDone
    \/ Finally

SessionSpec == SessionInit /\ [][SessionNext]_vars

(***************************************************************************)
(* SecurityValidator.validate_command on its own                           *)
(***************************************************************************)
\* command texts handed to validate_command: a start, a command and an end
CommandStarts ==
    { <<>>,
      <<" ", " ">>,
      <<"e", "c", "h", "o", " ">>,
      <<"S", "U", "D", "O", " ">>,
      <<"x", ";">> }

CommandMiddles ==
    { <<"l", "s">>,
      <<"a", "p", "t", " ", "x">>,
      <<"r", "m", " ", "-", "r", "f", " ", "/">>,
      <<"R", "m", "\t", "-", "R", "F", " ", " ", "/", "t", "m", "p">>,
      <<"r", "m", " ", "-", "r", " ", "/">>,
      <<"m", "k", "f", "s", ".", "e", "x", "t", "4", " ", "d">>,
      <<"m", "k", "f", "s">>,
      <<"r", "e", "s", "u", "m", "e">>,
      <<"M", "o", "u", "n", "t">>,
      <<"f", "d", "i", "s", "k", " ", "a", " ", "-", "-", "d", "e", "l", "e", "t", "e">>,
      <<"f", "d", "i", "s", "k", " ", "a", "\n", "-", "-", "d", "e", "l", "e", "t", "e">>,
      <<"i", "n", "i", "t", " ", " ", "0">>,
      <<":", "{", " ", ":">> }

CommandEnds ==
    { <<>>,
      <<" ">>,
      <<"|", "B", "r", "e", "w">>,
      <<"\n">> }

CommandTexts ==
    {a \o b \o c : a \in CommandStarts, b \in CommandMiddles, c \in CommandEnds}

\* validate_command is about to be called with the command arg
ClassifyInit ==
    /\ require_confirmation = TRUE
    /\ history = <<>>
    /\ stack = <<>>
    /\ pc = "validate"
    /\ arg \in CommandTexts
    /\ ret = None
    /\ perm = "none"
    /\ io = IO("none", <<>>)
    /\ lastResponse = None
    /\ fixes = 0
    /\ procs = {}
    /\ stdin = "open"

\* the call returns; ret holds the tier of the returned triple
Classify ==
    /\ pc = "validate"
    /\ pc' = "validated"
    /\ ret' = classify(arg)
    /\ UNCHANGED <<require_confirmation, history, stack, arg, perm, io, lastResponse,
                   fixes, procs, stdin>>

ClassifySpec == ClassifyInit /\ [][Classify]_vars

(***************************************************************************)
(* ResponseParser.extract_commands on its own                              *)
(***************************************************************************)
\* a response with one fenced bash block: the text before the block, the
\* spelling of the label, the content of the block and the text after it
BlockLabels == { <<"b", "a", "s", "h">>, <<"B", "a", "s", "h">>, <<"B", "A", "S", "H">> }

TextsBefore == { <<>>, <<"T", "r", "y", ":", "\n">>, <<"d", "o", " ">> }

TextsAfter == { <<>>, <<"\n">>, <<"\n", "o", "k", ".">> }

BlockContents ==
    { <<"l", "s">>,
      <<" ", "l", "s", " ">>,
      <<"l", "s", "\n">>,
      <<"\t", "l", "s", " ", "-", "l">>,
      <<"c", "d", " ", "/", "\n", "l", "s">>,
      <<>>,
      <<" ">>,
      <<"#", " ", "l", "s">>,
      <<" ", "#", "c", "\n", "l", "s">>,
      <<"l", "s", " ", "#", "c">>,
      <<"e", "c", "h", "o", " ", "R", "u", "n", ":", " ", BQ, "l", "s", BQ>> }

OneBlock(before, label, content, after) ==
    before \o Fence \o label \o <<"\n">> \o content \o <<"\n">> \o Fence \o after

OneBlockResponses ==
    { OneBlock(b, l, c, a) : b \in TextsBefore, l \in BlockLabels,
                             c \in BlockContents, a \in TextsAfter }

\* responses the program writes itself when the backend gives none:
\* _generate_fallback_response on every platform for these requests
FallbackPlatforms ==
    {"debian", "redhat", "arch", "linux", "generic", "darwin", "windows", "other"}

FallbackRequests ==
    { <<"d", "i", "s", "k", " ", "f", "u", "l", "l">>,
      <<"h", "i", "g", "h", " ", "C", "P", "U">>,
      <<"o", "p", "e", "n", " ", "p", "o", "r", "t">>,
      <<"f", "i", "x", " ", "i", "t">>,
      <<"i", "n", "s", "t", "a", "l", "l", " ", "v", "i", "m">>,
      <<"S", "e", "t", "u", "p", " ", "x">> }

FallbackResponses ==
    { generate_fallback_response(p, u) : p \in FallbackPlatforms, u \in FallbackRequests }

\* extract_commands is about to be called with the response arg
ExtractInit ==
    /\ require_confirmation = TRUE
    /\ history = <<>>
    /\ stack = <<>>
    /\ pc = "extract"
    /\ arg \in OneBlockResponses \cup FallbackResponses
    /\ ret = None
    /\ perm = "none"
    /\ io = IO("none", <<>>)
    /\ lastResponse = None
    /\ fixes = 0
    /\ procs = {}
    /\ stdin = "open"

\* the call returns; ret holds the returned list
Extract ==
    /\ pc = "extract"
    /\ pc' = "extracted"
    /\ ret' = extract_commands(arg)
    /\ UNCHANGED <<require_confirmation, history, stack, arg, perm, io, lastResponse,
                   fixes, procs, stdin>>

ExtractSpec == ExtractInit /\ [][Extract]_vars

(***************************************************************************)
(* Properties                                                              *)
(***************************************************************************)
\* execute_command is between the spawn and its return
Spawning == pc \in {"popen", "communicate"}

\* C1: a command that matches a forbidden pattern is never spawned, at any
\* recursion depth: execute_command is never at or past the Popen call with
\* such a command, and no process is started for one.
C1_ForbiddenNeverSpawned ==
    /\ Spawning => ~is_dangerous_command(Command)[1]
    /\ io.op \in {"spawn", "wait", "kill"} => ~is_dangerous_command(io.arg)[1]

\* a forbidden command proposed in a fix response was accepted by the user
\* and execute_command has returned without spawning it
C1_Witness ==
    /\ pc = "result"
    /\ Depth >= 1
    /\ is_dangerous_command(Command)[1]
    /\ ~Top.result.success
    /\ io.op = "log"

\* C2: a Privileged command is at or past the spawn only after the Consent
\* Gate returned Approved in the same execute_command call, and after a
\* Denied decision no process is spawned.
C2_PrivilegedNeedsApproval ==
    /\ (Spawning /\ classify(Command) = "Privileged") => perm = "Approved"
    /\ (io.op = "spawn" /\ classify(io.arg) = "Privileged") => perm = "Approved"
    /\ perm = "Denied" => (~Spawning /\ io.op \notin {"spawn", "wait", "kill"})

\* with confirmation enabled the user said no to a privileged command and
\* execute_command has returned without spawning it
C2_Witness ==
    /\ require_confirmation
    /\ pc = "result"
    /\ classify(Command) = "Privileged"
    /\ perm = "Denied"
    /\ Top.result.stderr = <<"Permission denied by user">>

\* the top invocation has sent, or is about to send, a failure report about
\* its current command to the model, or is recursing on the answer
FollowUp == stack # <<>> /\ pc \in {"chat", "call"}

\* C3: a candidate classified Forbidden never causes a follow-up request to
\* the model: no failure report is appended for it and no recursion happens
\* because of it.
C3_ForbiddenNoFollowUp == FollowUp => classify(Command) # "Forbidden"

\* C4: the recursion depth of the Recovery Loop never exceeds the configured
\* cap.
C4_DepthCapped == Depth <= max_retries

\* the outcome execute_command reports when Popen raised
IsSpawnError(result) ==
    /\ ~result.success
    /\ result.stderr # <<>>
    /\ result.stderr[1] = "Execution error: "

\* C5: a spawn-error outcome never causes a failure report to be appended
\* nor the model backend to be called.
C5_SpawnErrorNoRetry == FollowUp => ~IsSpawnError(Top.result)

\* the outcome execute_command reports when the user denied consent
IsDenied(result) == ~result.success /\ result.stderr = <<"Permission denied by user">>

\* C6: a denied consent is fatal to that candidate only: no invocation
\* leaves its loop because of a denied candidate while candidates of the
\* same response are still to be processed.
C6_DeniedSkipsOnlyCandidate ==
    \A k \in 1..Len(stack) :
        (IsDenied(stack[k].result) /\ stack[k].i < Len(stack[k].commands))
            => ~stack[k].recursed

Last(s) == s[Len(s)]

\* the failure report about the current command of the top invocation
Report == Message("user", FailureMessage(Command, Top.result.stderr))

\* C7: after an executed command failed with non-empty stderr the loop first
\* appends a user-role failure report holding the command and its stderr to
\* the conversation, then calls the model with a context whose last message
\* is that report, then recurses on the new response one level deeper.
C7_Step ==
    /\ (pc = "result" /\ NeedsFix(Top.result)) =>
           /\ pc' = "chat"
           /\ history' = add_message(history, "user", FailureMessage(Command, Top.result.stderr))
           /\ Last(history').role = "user"
           /\ Contains(Last(history').content, Command)
           /\ Contains(Last(history').content, Top.result.stderr)
           /\ io'.op # "chat"
    /\ pc = "chat" =>
           /\ Last(history) = Report
           /\ io'.op = "chat"
           /\ Last(io'.arg) = Report
           /\ Truthy(io'.res) =>
                  /\ pc' = "call"
                  /\ arg' = io'.res
                  /\ stack'[Len(stack')].response = Top.response
                  /\ Len(stack') = Len(stack)
    /\ (pc = "call" /\ stack # <<>> /\ extract_commands(arg) # <<>>) =>
           /\ Len(stack') = Len(stack) + 1
           /\ stack'[Len(stack')].response = arg
           /\ stack'[Len(stack')].i = 1

C7_AppendThenAskThenRecurse == [][C7_Step]_vars

\* a command ran and failed with stderr, the report was appended, the model
\* was called with it and the loop is about to recurse on the answer
C7_Witness ==
    /\ pc = "call"
    /\ stack # <<>>
    /\ io.op = "chat"
    /\ Last(io.arg).role = "user"
    /\ Contains(Last(io.arg).content, Top.result.stderr)
    /\ Top.result.stderr = <<"e", "r", "r">>
    /\ arg = io.res
    /\ Last(history) = Message("assistant", arg)

\* C8: what the outermost invocation returns is the last response received
\* from the model: the deepest fix response, or the original response when
\* no fix response was obtained.
C8_ReturnsDeepestResponse ==
    (pc = "done" \/ (pc = "return" /\ stack = <<>>)) => ret = lastResponse

\* the outermost invocation has returned a fix response obtained two levels
\* down, which differs from the response it was called with
C8_Witness ==
    /\ pc = "done"
    /\ Len(history) >= 6
    /\ ret = lastResponse
    /\ ret # history[2].content
    /\ ret # history[4].content

\* an invocation returns in this step
Returns == Len(stack') < Len(stack)

\* C9 as claimed: an invocation one of whose backend calls gave no response
\* returns the response text it was given.
C9_ReturnsGivenResponse ==
    [][(Returns /\ (Top.nofix \/ pc = "chat")) => ret' = Top.response]_vars

\* C9 as amended: when the backend call gives no response the loop neither
\* calls the backend again for that failure nor recurses nor touches the
\* conversation but goes on with the next candidate, and the invocation
\* returns the response text it was given unless a later candidate's
\* failure obtains a fix response.
C9_Step ==
    /\ (pc = "chat" /\ io'.op = "chat" /\ ~Truthy(io'.res)) =>
           /\ history' = history
           /\ arg' = arg
           /\ IF Top.i < Len(Top.commands)
              THEN /\ pc' = "ask"
                   /\ Len(stack') = Len(stack)
                   /\ stack'[Len(stack')].i = Top.i + 1
                   /\ stack'[Len(stack')].nofix
              ELSE /\ pc' = "return"
                   /\ Returns
                   /\ ret' = Top.response
    /\ (Returns /\ Top.nofix /\ ~Top.recursed) => ret' = Top.response

C9_NoFixGoesOn == [][C9_Step]_vars

\* the backend gave no response for the first candidate and the loop has
\* moved to the second candidate of the same response
C9_Witness ==
    /\ pc = "ask"
    /\ io.op = "chat"
    /\ io.res = None
    /\ Top.nofix
    /\ Top.i = 2

\* C10: an invocation on a response without candidates returns that response
\* and does nothing else: no prompt, no process, no model call, and the
\* conversation, the pending invocations and the consent state are unchanged.
C10_Step ==
    (pc = "call" /\ extract_commands(arg) = <<>>) =>
        /\ pc' = "return"
        /\ ret' = arg
        /\ io'.op = "none"
        /\ UNCHANGED <<history, stack, perm, arg, lastResponse>>

C10_NoCandidatesNoEffect == [][C10_Step]_vars

\* the outermost invocation was called on a response without candidates and
\* has returned it, the conversation being as process_user_input left it
C10_Witness ==
    /\ pc = "return"
    /\ stack = <<>>
    /\ extract_commands(arg) = <<>>
    /\ ret = arg
    /\ io.op = "none"
    /\ history = process_user_input(<<>>, UserRequest, arg)

\* a prompt round has just read a line whose normalised form is in answers
ReadAnswer(answers) ==
    io'.op = "input" /\ "line" \in DOMAIN io' /\ Strip(Lower(io'.line)) \in answers

\* C11: with confirmation enabled, request_permission returns only on an
\* answer that normalises to yes/y (Approved) or no/n (Denied); a round that
\* reads anything else, explain/e included, stays in the prompt loop, returns
\* no decision and changes nothing but what is shown on the terminal.
C11_Step ==
    (pc = "permission") =>
        /\ require_confirmation
        /\ io'.op = "input"
        /\ \/ ReadAnswer(Yes) /\ perm' = "Approved" /\ pc' = "popen"
           \/ ReadAnswer(No) /\ perm' = "Denied" /\ pc' = "result"
                /\ Top'.result.stderr = <<"Permission denied by user">>
           \/ /\ ~ReadAnswer(Yes \cup No)
              /\ pc' = "permission"
              /\ perm' = "none"
              /\ UNCHANGED <<require_confirmation, history, stack, arg, ret, perm,
                             lastResponse, fixes>>

C11_ReturnsOnlyOnYesOrNo == [][C11_Step]_vars

\* the loop has prompted again after an explain and after an unrecognised answer
C11_Witness ==
    /\ pc = "permission"
    /\ io.op = "input"
    /\ Strip(Lower(io.line)) \in {<<"e">>, <<"m", "a", "y", "b", "e">>}
    /\ perm = "none"
\* C12: with confirmation disabled by the flag, request_permission returns
\* Approved for every privileged command without reading any input:
\* execute_command goes from the validation straight to the spawn, and the
\* prompt loop is never entered.
C12_Step ==
    ~require_confirmation =>
        /\ pc' # "permission"
        /\ (pc = "exec" /\ classify(Command) = "Privileged") =>
               /\ perm' = "Approved"
               /\ pc' = "popen"
               /\ io'.op # "input"

C12_NoPromptWhenDisabled == [][C12_Step]_vars

\* a privileged command has been approved without a prompt
C12_Witness ==
    /\ ~require_confirmation
    /\ pc = "popen"
    /\ classify(Command) = "Privileged"
    /\ perm = "Approved"
    /\ io.op = "none"
\* the command matches a forbidden pattern and holds a privileged-tool token
ForbiddenAndPrivileged(command) ==
    requires_privileges(command) /\ is_dangerous_command(command)[1]

\* C13: the forbidden check takes precedence over privilege detection: a
\* command that matches a forbidden pattern and also holds a privileged-tool
\* token is classified Forbidden, the consent prompt is never entered for
\* it, no consent is recorded for it and it is never spawned.
C13_ForbiddenBeforePrivileged ==
    /\ pc = "exec" =>
           (ForbiddenAndPrivileged(Command) => classify(Command) = "Forbidden")
    /\ pc \in {"permission", "popen", "communicate"} => ~ForbiddenAndPrivileged(Command)
    /\ (pc = "result" /\ (perm # "none" \/ Top.result.success)) =>
           ~ForbiddenAndPrivileged(Command)
    /\ io.op \in {"spawn", "wait", "kill"} => ~ForbiddenAndPrivileged(io.arg)

\* with confirmation enabled, execute_command has refused a forbidden
\* command that holds a privileged-tool token
C13_Witness ==
    /\ require_confirmation
    /\ pc = "result"
    /\ ForbiddenAndPrivileged(Command)
    /\ StartsWith(Top.result.stderr, <<"Command blocked for security: ">>)
    /\ perm = "none"
\* C20: when the child ends by itself, execute_command reports success
\* exactly when the exit code is zero and returns what the child wrote to
\* stdout and to stderr as two separate, unmodified texts.
C20_ExitCodeAndStreams ==
    (pc = "result" /\ io.op = "wait") =>
        /\ Top.result.success = (io.outcome.rc = 0)
        /\ Top.result.stdout = io.outcome.stdout
        /\ Top.result.stderr = io.outcome.stderr

\* a child has ended with exit code zero and text on stderr only
C20_Witness ==
    /\ pc = "result"
    /\ io.op = "wait"
    /\ io.outcome.rc = 0
    /\ io.outcome.stderr # <<>>
    /\ Top.result = [success |-> TRUE, stdout |-> <<>>, stderr |-> io.outcome.stderr]
\* the command matches one of the forbidden patterns
MatchesForbidden(command) == DangerousMatches(command) # {}

\* the command holds a privileged-tool token anywhere, in any letter case
ContainsToken(command) ==
    \E t \in 1..Len(privileged_commands) : Contains(Lower(command), privileged_commands[t])

\* C14 as stated: the classification is one of the three tiers; it is
\* Privileged for every command that holds a privileged-tool token, and
\* Ordinary for every command that holds no token and matches no forbidden
\* pattern.
C14_TokenMeansPrivileged ==
    pc = "validated" =>
        /\ ret \in {"Forbidden", "Privileged", "Ordinary"}
        /\ ContainsToken(arg) => ret = "Privileged"
        /\ (~ContainsToken(arg) /\ ~MatchesForbidden(arg)) => ret = "Ordinary"

\* C14 amended: the classification is one of the three tiers; it is
\* Privileged for every command that holds a privileged-tool token and
\* matches no forbidden pattern, Forbidden for every command that matches a
\* forbidden pattern, with or without a token, and Ordinary for all others.
C14_TiersByPatternThenToken ==
    pc = "validated" =>
        /\ ret \in {"Forbidden", "Privileged", "Ordinary"}
        /\ MatchesForbidden(arg) => ret = "Forbidden"
        /\ (ContainsToken(arg) /\ ~MatchesForbidden(arg)) => ret = "Privileged"
        /\ (~ContainsToken(arg) /\ ~MatchesForbidden(arg)) => ret = "Ordinary"

\* a command with an upper-case token after its first word, and surrounding
\* whitespace, has been classified Privileged
C14_Witness ==
    /\ pc = "validated"
    /\ ret = "Privileged"
    /\ arg # Strip(arg)
    /\ ContainsToken(arg)
    /\ \A t \in 1..Len(privileged_commands) :
           ~StartsWith(Strip(Lower(arg)), privileged_commands[t])
    /\ ~Contains(arg, <<"b", "r", "e", "w">>)
\* C15: after execute_command has returned for a timeout, neither the shell
\* it spawned for the command nor anything that shell started is running.
C15_NothingRunsAfterTimeout ==
    (pc = "result" /\ io.op = "kill") => ~(\E p \in procs : p.command = io.arg)

\* C16: at most one command started by the pipeline is executing at any
\* time: the commands of a response run one after the other, each started
\* only after the one before it has returned.
C16_AtMostOneExecuting ==
    Cardinality(procs) <= 1
\* s is a prefix of t
IsPrefix(s, t) == Len(s) <= Len(t) /\ SubSeq(t, 1, Len(s)) = s

\* C17 as stated: during the recovery loop every message present before a
\* step is still present, unchanged and in the same place, after it: the
\* earlier history is a prefix of the later history.
C17_EarlierIsPrefix == [][IsPrefix(history, history')]_vars

\* h with the message m added when h holds at most the retained maximum:
\* below the maximum nothing is lost, at the maximum the oldest entry goes
KeepRecent(h, m) ==
    IF Len(h) < conversation_history_limit THEN Append(h, m) ELSE Append(Tail(h), m)

C17_Step ==
    /\ Len(history) <= conversation_history_limit
    /\ history' # history => history' = KeepRecent(history, Last(history'))
    /\ (pc = "result" /\ NeedsFix(Top.result)) =>
           history' = KeepRecent(history,
                                 Message("user", FailureMessage(Command, Top.result.stderr)))
    /\ (pc = "chat" /\ pc' = "call") =>
           history' = KeepRecent(history, Message("assistant", arg'))
    /\ \/ history' = history
       \/ Len(history) < conversation_history_limit /\ IsPrefix(history, history')
       \/ /\ Len(history) = conversation_history_limit
          /\ IsPrefix(Tail(history), history')
          /\ Len(history') = conversation_history_limit

\* C17 amended: the recovery loop changes the conversation only by adding
\* the failure report and the fix response at its end. While the history
\* is shorter than the retained maximum the earlier history is a prefix of
\* the later one; at the maximum the addition drops the oldest entry, and
\* the earlier history without its first entry is a prefix of the later one.
C17_AppendDropsOldestAtLimit == [][C17_Step]_vars

\* the failure report has been added to a full history, which lost the
\* first request of the session
C17_Witness ==
    /\ pc = "chat"
    /\ Len(history) = conversation_history_limit
    /\ history[1] # Message("user", PriorRequest(1))
    /\ Last(history) = Message("user", FailureMessage(Command, Top.result.stderr))
\* C18: once the terminal input cannot be read any more, so that this and
\* every later input() raises EOFError, a read at the "You:" prompt does not
\* lead back to another read: the session leaves its loop.
C18_ClosedInputEndsSession ==
    [][(pc = "read" /\ stdin' = "closed") => pc' # "read"]_vars

\* control is inside process_user_input or handle_command_execution
InTurn ==
    pc \in {"call", "ask", "exec", "permission", "popen", "communicate", "result", "chat",
            "return"}

\* this step has read a line that is one of quit, exit and q
ReadQuit ==
    /\ io'.op = "input"
    /\ "line" \in DOMAIN io'
    /\ Lower(Strip(io'.line)) \in QuitWords

C19_Step ==
    /\ pc' = "finally" => (pc = "read" /\ ReadQuit)
    /\ pc' = "exited" => pc \in {"finally", "initialize"}
    /\ InTurn => pc' \in {"read", "call", "ask", "exec", "permission", "popen",
                           "communicate", "result", "chat", "return"}
    /\ (InTurn /\ "raised" \in DOMAIN io') => (pc' = "read" /\ stack' = <<>>)
    /\ (pc = "return" /\ stack = <<>>) => pc' = "read"
    /\ (pc = "read" /\ ~ReadQuit) => pc' \in {"read", "call"}

\* C19: whatever happens during a turn (a refused or denied command, a
\* timeout, a failed command, a spawn error, a backend that gives no
\* response, an exception raised by a prompt), control stays in the turn
\* or goes back to reading the next input: an exception and the end of the
\* turn lead to the "You:" prompt, and the loop is left only by reading
\* quit, exit or q.
C19_OnlyQuitEndsLoop == [][C19_Step]_vars

\* the session reads again after a turn in which a command timed out and the
\* backend gave no response to the failure report
C19_Witness ==
    /\ pc = "read"
    /\ stack = <<>>
    /\ procs # {}
    /\ Len(history) = 3
    /\ StartsWith(history[3].content, <<"The command '">>)
\* the response arg is the one block with this content, whatever surrounds it
HasContent(content) ==
    \E b \in TextsBefore, l \in BlockLabels, a \in TextsAfter :
        arg = OneBlock(b, l, content, a)

\* a marker followed by backquoted text, as the fourth to sixth pattern find it
HasMarker(response) ==
    \E k \in 4..6 : FindAll(command_patterns[k], response) # <<>>

\* C21 as stated: extracting the commands of a response with exactly one
\* fenced bash block of content C yields the one-element sequence of C trimmed.
C21_OneBlockYieldsContent ==
    pc = "extracted" =>
        \A content \in BlockContents : HasContent(content) => ret = <<Strip(content)>>

\* C21 amended: for a response with exactly one fenced bash block of
\* content C and no Command:/Execute:/Run: marker before backquoted text,
\* the extraction yields the one-element sequence of C trimmed when C trimmed
\* is not empty and does not begin with '#', and the empty sequence otherwise.
C21_OneBlockYieldsContentUnlessDiscarded ==
    pc = "extracted" =>
        \A content \in BlockContents :
            HasContent(content) /\ ~HasMarker(arg) =>
                ret = IF Strip(content) # <<>> /\ Strip(content)[1] # "#"
                      THEN <<Strip(content)>>
                      ELSE <<>>

\* a block whose content starts with a comment line has been extracted from
C21_Witness ==
    /\ pc = "extracted"
    /\ HasContent(<<" ", "#", "c", "\n", "l", "s">>)
    /\ ret = <<>>

\* the positions of the fences of s from position i on, left to right
RECURSIVE FencesFrom(_, _)
FencesFrom(s, i) ==
    LET at == {j \in i..Len(s) : StartsWithAt(s, j, Fence)}
    IN  IF at = {} THEN <<>>
        ELSE LET j == CHOOSE m \in at : \A o \in at : m <= o
             IN  <<j>> \o FencesFrom(s, j + 3)

\* the length of the first line of s, its line break not counted
FirstLineLen(s) ==
    LET breaks == {j \in 1..Len(s) : s[j] = "\n"}
    IN  IF breaks = {} THEN Len(s)
        ELSE (CHOOSE m \in breaks : \A o \in breaks : m <= o) - 1

\* the text from the first line break of s on, without that line break
AfterFirstLine(s) == SubSeq(s, FirstLineLen(s) + 2, Len(s))

\* the label of a block: what follows its opening fence on the same line
FirstLine(s) == SubSeq(s, 1, FirstLineLen(s))

\* the fenced blocks of a response: the first fence opens a block, the second
\* closes it, the third opens the next; each block is what lies between its
\* two fences
BlocksOf(response) ==
    LET f == FencesFrom(response, 1)
    IN  { SubSeq(response, f[2 * j - 1] + 3, f[2 * j] - 1) : j \in 1..(Len(f) \div 2) }

\* the trimmed contents of the blocks labeled bash, shell or sh, or unlabeled
BlockCandidates(response) ==
    { Strip(AfterFirstLine(b)) :
        b \in { c \in BlocksOf(response) :
                  Lower(FirstLine(c)) \in { <<"b", "a", "s", "h">>, <<"s", "h", "e", "l", "l">>,
                                            <<"s", "h">>, <<>> } } }

\* the trimmed backquoted texts after a Command:, Execute: or Run: marker
MarkerCandidates(response) ==
    UNION { { Strip(FindAll(command_patterns[k], response)[n]) :
                n \in 1..Len(FindAll(command_patterns[k], response)) } : k \in 4..6 }

\* C22: every candidate the extractor returns is the content of a fenced
\* block (labeled bash, shell or sh, or unlabeled) or the backquoted text
\* after a Command:/Execute:/Run: marker; prose outside the fences is never
\* returned.
C22_CandidatesComeFromBlocksOrMarkers ==
    pc = "extracted" =>
        \A n \in 1..Len(ret) :
            ret[n] \in BlockCandidates(arg) \cup MarkerCandidates(arg)

\* C23: a command that succeeded, or that failed with empty stderr, causes no
\* model request, no append to the conversation and no recursion: the loop
\* goes on to the next candidate of the same response, or the invocation
\* returns its response after the last one.
C23_Step ==
    (pc = "result" /\ (Top.result.success \/ Top.result.stderr = <<>>)) =>
        /\ UNCHANGED <<history, arg, lastResponse, fixes>>
        /\ io'.op # "chat"
        /\ pc' \notin {"chat", "call"}
        /\ IF Top.i < Len(Top.commands)
           THEN /\ pc' = "ask"
                /\ stack' = SetTop([Top EXCEPT !.i = Top.i + 1])
           ELSE /\ pc' = "return"
                /\ stack' = Pop
                /\ ret' = Top.response

C23_NoFixWithoutFailureText == [][C23_Step]_vars

\* the first candidate failed with empty stderr and the loop is at the second
\* candidate, the conversation being as process_user_input left it
C23_Witness ==
    /\ pc = "ask"
    /\ Depth = 0
    /\ Top.i = 2
    /\ ~Top.result.success
    /\ Top.result.stderr = <<>>
    /\ io.op = "print"
    /\ Len(history) = 2

\* execute_command is running: from its entry to its return
Executing == pc \in {"exec", "permission", "popen", "communicate"}

\* C24: a command is passed to execute_command only when the user has just
\* answered y (in any case, with surrounding blanks) to the "Execute this
\* command?" prompt for that candidate, at every recursion depth and whatever
\* require_confirmation is; any other answer, yes included, moves to the next
\* candidate, and nothing is spawned outside execute_command.
C24_Step ==
    /\ (Executing' /\ ~Executing) =>
            /\ pc = "ask"
            /\ pc' = "exec"
            /\ io'.op = "input"
            /\ io'.arg = "Execute this command? (y/n): "
            /\ Strip(Lower(io'.line)) = <<"y">>
            /\ stack' = stack
    /\ (Executing' /\ Executing) => stack'[Len(stack')].i = Top.i /\ Len(stack') = Len(stack)
    /\ io'.op = "spawn" => pc = "popen"
    /\ (pc = "ask" /\ Strip(Lower(io'.line)) # <<"y">>) => ~Executing'

C24_ExecutedOnlyAfterY == [][C24_Step]_vars

\* with confirmation disabled, the privileged candidate of a fix response
\* was answered with yes, and the invocation has returned the fix response
\* without executing it
C24_Witness ==
    /\ ~require_confirmation
    /\ pc = "return"
    /\ stack # <<>>
    /\ io.op = "input"
    /\ io.line = <<"y", "e", "s">>
    /\ ret = lastResponse
    /\ requires_privileges(extract_commands(ret)[1])

\* C25: once the model has returned a fix response for a failed candidate,
\* the invocation that asked for it attends to no later candidate of its own
\* response: its loop position never changes again, every step of control
\* belongs to the invocation on top, and when the recursive call has returned
\* the invocation returns that result at once.
C25_Step ==
    /\ \A k \in 1..Len(stack) :
           stack[k].recursed => (k <= Len(stack') => stack'[k] = stack[k])
    /\ \A k \in 1..(Len(stack) - 1) : stack[k].recursed
    /\ (stack # <<>> /\ Top.recursed) => pc \in {"call", "return"}
    /\ (pc = "return" /\ stack # <<>>) =>
           /\ Top.recursed
           /\ pc' = "return"
           /\ stack' = Pop
           /\ ret' = ret
           /\ io'.op = "none"

C25_NoLaterCandidateAfterFix == [][C25_Step]_vars

\* the first of two candidates failed, the fix response has been handled and
\* its result is about to be returned by the outermost invocation, whose
\* second candidate was never attended to
C25_Witness ==
    /\ pc = "return"
    /\ Len(stack) = 1
    /\ Top.recursed
    /\ Top.i = 1
    /\ Len(Top.commands) = 2
    /\ ret = lastResponse

\* the messages the session has added up to the response to the request at
\* hand, oldest first, nothing dropped: how many there are, and the k-th
ChronicleLen == 2 * PriorTurns + 2

ChronicleAt(response, k) ==
    IF k = ChronicleLen THEN Message("assistant", response)
    ELSE IF k = ChronicleLen - 1 THEN Message("user", UserRequest)
    ELSE IF k % 2 = 1 THEN Message("user", PriorRequest((k + 1) \div 2))
    ELSE Message("assistant", RPlain)

\* a message added by the recovery loop: a failure report or a fix response
IsRecoveryMessage(m) ==
    \/ m.role = "user" /\ StartsWith(m.content, <<"The command '">>)
    \/ m.role = "assistant" /\ m.content \in FixResponses \cup DeepResponses

\* the history is the end of the session's messages followed by the last d
\* messages of the recovery loop, and is shorter than all of them only by
\* what exceeds the limit
RetainsMostRecent(response, d) ==
    LET keep == Len(history) - d
    IN  /\ keep \in 0..ChronicleLen
        /\ keep < ChronicleLen => Len(history) = conversation_history_limit
        /\ \A k \in (keep + 1)..Len(history) : IsRecoveryMessage(history[k])
        /\ \A k \in 1..keep : history[k] = ChronicleAt(response, ChronicleLen - keep + k)

\* C26: whatever has been added to the conversation (requests and answers
\* of the turns, failure reports and fix responses of the recovery loop),
\* the history never holds more than conversation_history_limit messages, and
\* it holds the most recent ones in the order they were added: the message
\* added last is its last one.
C26_BoundedAndMostRecent ==
    /\ Len(history) <= conversation_history_limit
    /\ \E response \in Responses : \E d \in 0..Len(history) : RetainsMostRecent(response, d)
    /\ pc = "chat" => Last(history) = Report
    /\ (pc = "call" /\ io.op = "chat") => Last(history) = Message("assistant", arg)

\* two failure reports and two fix responses were added to a full history:
\* the four oldest messages are gone and the fix response is the last one
C26_Witness ==
    /\ pc = "call"
    /\ io.op = "chat"
    /\ fixes = 0
    /\ Len(history) = conversation_history_limit
    /\ history[1] = Message("user", PriorRequest(3))
    /\ Last(history) = Message("assistant", arg)

=============================================================================
